---- MODULE Spec2Model ----
(***************************************************************************)
(* The checks execution engine of servo (src/servo/checks.py): Check,      *)
(* result coercion, the handler runner, the check decorator and its        *)
(* validation, Filter, BaseChecks.run_ and create_checks_from_iterable.    *)
(*                                                                         *)
(* Python values are tagged records.  An Optional field holds None (the    *)
(* empty tuple) or Some(v) (a one-element tuple).  Names and ids are       *)
(* tuples of tokens so that a regular expression can search inside them;   *)
(* messages are plain strings.                                             *)
(***************************************************************************)
EXTENDS Integers, Sequences, FiniteSets, TLC

VARIABLES
    methods,            \* the check methods of the collection, in definition order
    filter_,            \* the filter_ argument of run_ (NoFilter, or a Filter)
    halt_on,            \* the halt_on argument of the current run
    pc,                 \* where run_ is: "idle", "running", "awaiting", "done", "raised"
    i,                  \* position of the second loop of run_ in check_methods()
    filtered_methods,   \* the local list filtered_methods (positions of methods)
    checks,             \* the local list checks
    raised,             \* the exception run_ raised, or None
    prev,               \* the outcome of the previous call of run_
    calls,              \* the positions of the methods run_ has called, in call order
    now,                \* datetime.now()
    called,             \* the outcome of the last direct call of a check runner
    executing,          \* the positions of the methods whose body has begun and not ended
    iterable,           \* the items create_checks_from_iterable made the methods from
    matched,            \* the last call of Filter.matches: its filter, check and result
    decorated,          \* the last use of the check decorator: its handler and result
    heap,               \* the Check objects that concurrent runs share, by address
    runs                \* the locals of each of the concurrent calls of run_

vars == <<methods, filter_, halt_on, pc, i, filtered_methods, checks, raised,
          prev, calls, now, called, executing, iterable, matched, decorated,
          heap, runs>>

-----------------------------------------------------------------------------
(* Bounds *)

MaxMethods == 3
MaxClock == 1

-----------------------------------------------------------------------------
(* Python values *)

None == <<>>
Some(v) == <<v>>

PyBool(b) == [type |-> "bool", b |-> b]
PyStr(s) == [type |-> "str", s |-> s]
PyInt(n) == [type |-> "int", n |-> n]
PyNone == [type |-> "NoneType"]
PyTuple(items) == [type |-> "tuple", items |-> items]
PyException(cls, args) ==
    [type |-> "Exception", cls |-> cls, repr |-> cls \o "(" \o args \o ")"]

\* an exception that is no Exception: KeyboardInterrupt, CancelledError, ...
PyBaseException(cls, args) ==
    [type |-> "BaseException", cls |-> cls, repr |-> cls \o "(" \o args \o ")"]

\* isinstance(v, Exception)
IsException(v) == v.type = "Exception"

Min(a, b) == IF a < b THEN a ELSE b

\* return annotations: a class, Union[...], Tuple[...], another generic
\* alias such as List[str], no annotation (Signature.empty, a class), and an
\* annotation that is a value and no type: None, or the str of a forward
\* reference such as "int"
Class(name) == [form |-> "class", name |-> name]
UnionOf(members) == [form |-> "Union", members |-> members]
TupleOf(args) == [form |-> "tuple", args |-> args]
Generic(origin, args) == [form |-> "generic", origin |-> origin, args |-> args]
Empty == Class("_empty")
Value(v) == [form |-> "value", value |-> v]

\* a parameter of a signature
Param(name, kind) == [name |-> name, kind |-> kind]

\* Signature(parameters, return_annotation=...) of a bound method
Signature(params, returns) == [params |-> params, returns |-> returns]

CHECK_SIGNATURE == Signature(<<>>, Class("Check"))
CHECK_SIGNATURE_ANNOTATED == Signature(<<>>, Value(PyStr("Check")))

-----------------------------------------------------------------------------
(* Check *)

\* the str that a tuple of tokens stands for
RECURSIVE Text(_)
Text(tokens) == IF tokens = <<>> THEN "" ELSE Head(tokens) \o Text(Tail(tokens))

digest_size == 4

\* blake2b(data, digest_size=4).hexdigest(): two hexadecimal digits for each
\* byte of the digest, each digit a function of data
blake2b(data) ==
    [j \in 1..(2 * digest_size) |-> "hex" \o ToString(j) \o "(" \o Text(data) \o ")"]

\* Check._generated_id: v or the digest of the name
generated_id(v, name) == IF v = None THEN blake2b(name) ELSE v[1]

\* NewCheck, were a generated id a digest of the name and the time of creation
NewCheck_dated_id(name, v, required, tags, t) ==
    [type |-> "Check", name |-> name,
     id |-> IF v = None THEN blake2b(name \o <<"@", ToString(t)>>) ELSE v[1],
     description |-> None, required |-> required,
     tags |-> tags, success |-> None, message |-> None, exception |-> None,
     created_at |-> t, run_at |-> None, runtime |-> None]

\* Check(name=..., description=..., id=v, required=..., tags=...), created
\* at t: the validators give id and created_at their values
NewCheck(name, v, required, tags, t) ==
    [type |-> "Check", name |-> name, id |-> generated_id(v, name),
     description |-> None, required |-> required,
     tags |-> tags, success |-> None, message |-> None, exception |-> None,
     created_at |-> t, run_at |-> None, runtime |-> None]

\* failed, were it "success is False": a check never run would not count
failed_only_false(check) == check.success = Some(FALSE)

\* Check.failed: not self.success
failed(check) == check.success # Some(TRUE)

-----------------------------------------------------------------------------
(* Result coercion and the handler runner *)

\* What calling a handler does: it returns a value or raises an exception.
Return(v) == [kind |-> "return", value |-> v]
Raise(e) == [kind |-> "raise", error |-> e]

\* An operation on a check that may raise: the check as far as it was
\* mutated, and the exception raised (None when it completed).
Completed(check) == [check |-> check, error |-> None]
Raised(check, e) == [check |-> check, error |-> Some(e)]

ValueError(args) == PyException("ValueError", args)
ValidationError(args) == PyException("ValidationError", args)
TypeError(args) == PyException("TypeError", args)

\* check.success, check.message = result, under validate_assignment:
\* success is Optional[bool], message is Optional[StrictStr].
UnpackTuple(check, items) ==
    IF Len(items) # 2
    THEN Raised(check, ValueError("'unpack'"))
    ELSE IF items[1].type # "bool"
    THEN Raised(check, ValidationError("'success'"))
    ELSE LET c1 == [check EXCEPT !.success = Some(items[1].b)]
         IN  IF items[2].type # "str"
             THEN Raised(c1, ValidationError("'message'"))
             ELSE Completed([c1 EXCEPT !.message = Some(items[2].s)])

\* SetCheckResult, were success not set to True before the type is looked at
SetCheckResult_no_default(check, result) ==
    CASE result.type = "str" -> Completed([check EXCEPT !.message = Some(result.s)])
      [] result.type = "bool" -> Completed([check EXCEPT !.success = Some(result.b)])
      [] result.type = "tuple" -> UnpackTuple(check, result.items)
      [] result.type = "NoneType" -> Completed(check)
      [] result.type = "Exception" ->
            Completed([check EXCEPT !.success = Some(FALSE),
                                    !.exception = Some(result),
                                    !.message = Some("caught exception: " \o result.repr)])
      [] OTHER ->
            Raised(check, ValueError("'check method returned unexpected value of type \""
                                     \o result.type \o "\"'"))

\* SetCheckResult, were success left as it is when the result is an exception
SetCheckResult_exception_succeeds(check, result) ==
    LET c0 == [check EXCEPT !.success = Some(TRUE)]
    IN  CASE result.type = "str" -> Completed([c0 EXCEPT !.message = Some(result.s)])
          [] result.type = "bool" -> Completed([c0 EXCEPT !.success = Some(result.b)])
          [] result.type = "tuple" -> UnpackTuple(c0, result.items)
          [] result.type = "NoneType" -> Completed(c0)
          [] result.type = "Exception" ->
                Completed([c0 EXCEPT !.exception = Some(result),
                                     !.message = Some("caught exception: " \o result.repr)])
          [] OTHER ->
                Raised(c0, ValueError("'check method returned unexpected value of type \""
                                      \o result.type \o "\"'"))

\* _set_check_result(check, result)
SetCheckResult(check, result) ==
    LET c0 == [check EXCEPT !.success = Some(TRUE)]
    IN  CASE result.type = "str" -> Completed([c0 EXCEPT !.message = Some(result.s)])
          [] result.type = "bool" -> Completed([c0 EXCEPT !.success = Some(result.b)])
          [] result.type = "tuple" -> UnpackTuple(c0, result.items)
          [] result.type = "NoneType" -> Completed(c0)
          [] result.type = "Exception" ->
                Completed([c0 EXCEPT !.success = Some(FALSE),
                                     !.exception = Some(result),
                                     !.message = Some("caught exception: " \o result.repr)])
          [] OTHER ->
                Raised(c0, ValueError("'check method returned unexpected value of type \""
                                      \o result.type \o "\"'"))

\* run_check_handler, were it without its except clause
run_check_handler_uncaught(check, outcome, t0, t1) ==
    LET c0 == [check EXCEPT !.run_at = Some(t0)]
        try == IF outcome.kind = "raise"
               THEN Raised(c0, outcome.error)
               ELSE SetCheckResult(c0, outcome.value)
    IN  [check |-> [try.check EXCEPT !.runtime = Some(t1 - t0)],
         error |-> try.error]

\* run_check_handler, were runtime set at the end of the try block and of the
\* except clause instead of in a finally clause
run_check_handler_no_finally(check, outcome, t0, t1) ==
    LET c0 == [check EXCEPT !.run_at = Some(t0)]
        try == IF outcome.kind = "raise"
               THEN Raised(c0, outcome.error)
               ELSE SetCheckResult(c0, outcome.value)
        except == IF try.error = None \/ ~IsException(try.error[1])
                  THEN try
                  ELSE SetCheckResult(try.check, try.error[1])
    IN  IF try.error # None /\ ~IsException(try.error[1])
        THEN except
        ELSE [check |-> [except.check EXCEPT !.runtime = Some(t1 - t0)],
              error |-> except.error]

\* run_check_handler(check, handler, *args): t0 is datetime.now() on entry,
\* t1 is datetime.now() in the finally clause; an async handler is awaited.
run_check_handler(check, outcome, t0, t1) ==
    LET c0 == [check EXCEPT !.run_at = Some(t0)]
        try == IF outcome.kind = "raise"
               THEN Raised(c0, outcome.error)
               ELSE SetCheckResult(c0, outcome.value)
        except == IF try.error = None \/ ~IsException(try.error[1])
                  THEN try
                  ELSE SetCheckResult(try.check, try.error[1])
    IN  [check |-> [except.check EXCEPT !.runtime = Some(t1 - t0)],
         error |-> except.error]

\* run_check_handler_sync, were runtime set at the end of the try block
\* instead of in a finally clause
run_check_handler_sync_try_timed(check, outcome, t0, t1) ==
    LET c0 == [check EXCEPT !.run_at = Some(t0)]
        try == IF outcome.kind = "raise"
               THEN Raised(c0, outcome.error)
               ELSE SetCheckResult(c0, outcome.value)
    IN  IF try.error = None
        THEN Completed([try.check EXCEPT !.runtime = Some(t1 - t0)])
        ELSE IF IsException(try.error[1])
        THEN SetCheckResult(try.check, try.error[1])
        ELSE try

\* run_check_handler_sync(check, handler, *args)
run_check_handler_sync(check, outcome, t0, t1) ==
    LET c0 == [check EXCEPT !.run_at = Some(t0)]
        try == IF outcome.kind = "raise"
               THEN Raised(c0, outcome.error)
               ELSE SetCheckResult(c0, outcome.value)
        except == IF try.error = None \/ ~IsException(try.error[1])
                  THEN try
                  ELSE SetCheckResult(try.check, try.error[1])
    IN  [check |-> [except.check EXCEPT !.runtime = Some(t1 - t0)],
         error |-> except.error]

-----------------------------------------------------------------------------
(* Filter *)

\* Filter(name=..., id=..., tags=...): name and id hold None, a str, a
\* sequence of str or a compiled pattern; tags holds None or a set.
Filter(name, id, tags) == [type |-> "Filter", name |-> name, id |-> id, tags |-> tags]

PyList(items) == [type |-> "list", items |-> items]
\* re.compile of a literal, with or without a leading "^"
Pattern(anchored, literal) ==
    [type |-> "Pattern", anchored |-> anchored, literal |-> literal]

\* Pattern.search(value): the literal occurs in value (at the start, if anchored)
search(pattern, value) ==
    \E k \in 1..(Len(value) + 1) :
        /\ pattern.anchored => k = 1
        /\ k + Len(pattern.literal) - 1 <= Len(value)
        /\ SubSeq(value, k, k + Len(pattern.literal) - 1) = pattern.literal

\* Filter.empty
empty(f) == f.name = PyNone /\ f.id = PyNone /\ f.tags = None

\* Filter.any
any(f) == ~empty(f)

\* matches_str_attr, were the Sequence test made before the str test: a str
\* is a Sequence, and "value in attr" on a str is true of every part of it
matches_str_attr_sequence_first(attr, value) ==
    CASE attr.type = "NoneType" -> TRUE
      [] attr.type = "str" -> search(Pattern(FALSE, value), attr.s)
      [] attr.type = "list" -> \E k \in 1..Len(attr.items) : attr.items[k] = value
      [] attr.type = "Pattern" -> search(attr, value)

\* Filter._matches_str_attr(attr, value); its last branch raises ValueError,
\* which no value a Filter can hold reaches
matches_str_attr(attr, value) ==
    CASE attr.type = "NoneType" -> TRUE
      [] attr.type = "str" -> value = attr.s
      [] attr.type = "list" -> \E k \in 1..Len(attr.items) : attr.items[k] = value
      [] attr.type = "Pattern" -> search(attr, value)

\* Filter._matches_name
matches_name(f, check) == matches_str_attr(f.name, check.name)

\* Filter._matches_id
matches_id(f, check) == matches_str_attr(f.id, check.id)

\* matches_tags, were every tag of the filter required of the check
matches_tags_all(f, check) ==
    IF f.tags = None THEN TRUE
    ELSE IF check.tags = None THEN FALSE
    ELSE f.tags[1] \subseteq check.tags[1]

\* Filter._matches_tags
matches_tags(f, check) ==
    IF f.tags = None THEN TRUE
    ELSE IF check.tags = None THEN FALSE
    ELSE (f.tags[1] \cap check.tags[1]) # {}

\* matches, were one matching dimension enough
matches_any_dimension(f, check) ==
    IF empty(f) THEN TRUE
    ELSE matches_name(f, check) \/ matches_id(f, check) \/ matches_tags(f, check)

\* Filter.matches
matches(f, check) ==
    IF empty(f) THEN TRUE
    ELSE matches_name(f, check) /\ matches_id(f, check) /\ matches_tags(f, check)

\* filter_=None
NoFilter == PyNone

-----------------------------------------------------------------------------
(* Check methods *)

Letters == <<"a", "b", "c", "d", "e", "f">>

\* the name of the k-th method of a collection, and the name its decorator gives
MethodName(k) == <<"check_", Letters[k]>>
CheckName(k) == <<"Check ", Letters[k]>>

\* check(name, required=..., tags=...)(fn): the metadata attached to the
\* runner as __check__, whose id defaults to fn.__name__
decorator(name, fn_name, required, tags) ==
    NewCheck(name, Some(fn_name), required, tags, 0)

\* a method written with the check decorator
Decorated(k, is_async, required, tags, outcome) ==
    [name |-> MethodName(k), is_async |-> is_async,
     check |-> Some(decorator(CheckName(k), MethodName(k), required, tags)),
     outcome |-> outcome, signature |-> CHECK_SIGNATURE]

\* a hand-written method "def check_x(self) -> Check" without metadata
Plain(k, outcome) ==
    [name |-> MethodName(k), is_async |-> FALSE, check |-> None, outcome |-> outcome,
     signature |-> CHECK_SIGNATURE]

\* isinstance(method, Checkable): the method has a __check__ attribute
IsCheckable(method) == method.check # None

\* "check = __check__.copy()" and the runner's call on the copy: the copy as
\* the runner leaves it, and the exception that leaves the runner
run_check_copy(method, t0, t1) ==
    LET check == method.check[1]
    IN  IF method.is_async
        THEN run_check_handler(check, method.outcome, t0, t1)
        ELSE run_check_handler_sync(check, method.outcome, t0, t1)

\* run_check(*args, **kwargs) of the decorator: the metadata is copied, the
\* handler runs on the copy and the copy is returned
run_check(method, t0, t1) ==
    LET ran == run_check_copy(method, t0, t1)
    IN  IF ran.error = None THEN Return(ran.check) ELSE Raise(ran.error[1])

\* method(): a decorated method runs its handler, a plain one its own body
CallMethod(method, t0, t1) ==
    IF IsCheckable(method) THEN run_check(method, t0, t1) ELSE method.outcome

-----------------------------------------------------------------------------
(* BaseChecks.run_ *)

HaltOnFailed == {"requirement", "check", "never"}

Positions(ms) == [k \in 1..Len(ms) |-> k]

\* check_methods: "if name.startswith("_") or name in ("run_",
\* "check_methods"): continue"
IsPrivate(method) == method.name[1] = "_"

\* check_methods, on one method it does not pass over: the error it raises
\* for the method, or None when it yields it
validate(method) ==
    IF method.name[1] # "check_"
    THEN Some(ValueError("'invalid method name'"))
    ELSE IF method.signature \notin {CHECK_SIGNATURE, CHECK_SIGNATURE_ANNOTATED}
    THEN Some(TypeError("'invalid signature for method'"))
    ELSE None

\* check_methods, were every public method yielded as it is
check_methods_unvalidated(ms) == None

\* check_methods(), iterated to its end: the error raised at the first
\* method that is not valid, or None when every method was yielded or
\* passed over
check_methods(ms) ==
    LET bad == {k \in 1..Len(ms) : ~IsPrivate(ms[k]) /\ validate(ms[k]) # None}
    IN  IF bad = {} THEN None
        ELSE validate(ms[CHOOSE k \in bad : \A j \in bad : k <= j])

\* the position of the method check_methods yields after the one at k
Following(ms, k) ==
    LET later == {j \in (k + 1)..Len(ms) : ~IsPrivate(ms[j])}
    IN  IF later = {} THEN Len(ms) + 1
        ELSE CHOOSE j \in later : \A l \in later : j <= l

\* Selects, were a filter without constraints to select no method
Selects_nothing_when_empty(f, method) ==
    IF f # NoFilter
    THEN any(f) /\ IsCheckable(method) /\ matches(f, method.check[1])
    ELSE TRUE

\* the first loop of run_, on one method: is it appended to filtered_methods
Selects(f, method) ==
    IF f # NoFilter /\ any(f)
    THEN IsCheckable(method) /\ matches(f, method.check[1])
    ELSE TRUE

\* FilteredMethods, were the first loop left ("break") at the first method
\* the filter does not select
FilteredMethods_until_mismatch(ms, f) ==
    SelectSeq(Positions(ms), LAMBDA k : \A j \in 1..k : Selects(f, ms[j]))

\* the first loop of run_: the methods that match the filter
FilteredMethods(ms, f) ==
    SelectSeq(Positions(ms), LAMBDA k : ~IsPrivate(ms[k]) /\ Selects(f, ms[k]))

\* method in filtered_methods
Contains(seq, k) == \E j \in 1..Len(seq) : seq[j] = k

\* filtered_methods.remove(method): the first occurrence goes
Remove(seq, k) ==
    LET j == CHOOSE j \in 1..Len(seq) :
                 seq[j] = k /\ \A l \in 1..(j - 1) : seq[l] # k
    IN  SubSeq(seq, 1, j - 1) \o SubSeq(seq, j + 1, Len(seq))

\* Skips, were no method skipped
Skips_never(method, remaining) == FALSE

\* Skips, were a required method never skipped
Skips_only_optional(method, remaining) ==
    /\ method.check # None
    /\ ~method.check[1].required

\* Skips, were every method the filter did not select skipped
Skips_unselected(method, remaining) == method.check # None

\* Skips, were a method without metadata skipped like one that is not required
Skips_without_metadata(method, remaining) ==
    \/ method.check = None
    \/ ~method.check[1].required
    \/ remaining = <<>>

\* the second loop of run_, on one method, when it is not in
\* filtered_methods: "continue"
Skips(method, remaining) ==
    /\ method.check # None
    /\ (~method.check[1].required \/ remaining = <<>>)

\* Halts, were halt_on=requirement to ignore the required flag
Halts_any_failure(check, h) ==
    /\ failed(check)
    /\ (h = "check" \/ h = "requirement")

\* Halts, were halt_on ignored
Halts_always(check, h) == failed(check)

\* Halts, were a check failed only when its success is False
Halts_only_false(check, h) ==
    /\ check.success = Some(FALSE)
    /\ (h = "check" \/ (h = "requirement" /\ check.required))

\* "halt the run if necessary"
Halts(check, h) ==
    /\ failed(check)
    /\ (h = "check" \/ (h = "requirement" /\ check.required))

\* NextMethod, were the loop to stay on the method it just called
NextMethod_same(k) == k

\* "for method_name, method in self.check_methods()": on to the next method
NextMethod(k) == Following(methods, k)

\* Collect, were the run to break before appending a failed check
Collect_passing(results, check) ==
    IF failed(check) THEN results ELSE Append(results, check)

\* checks.append(check)
Collect(results, check) == Append(results, check)

\* Returned, were a value that is no Check made into one the way a handler's
\* result is
Returned_coerced(call) ==
    IF call.kind = "raise" \/ call.value.type = "Check"
    THEN call
    ELSE Return(SetCheckResult(NewCheck(<<"coerced">>, Some(<<"coerced">>), FALSE, None, 0),
                               call.value).check)

\* "check = await method() ...; if not isinstance(check, Check): raise
\* TypeError": what run_ has in check after the call, or the exception raised
Returned(call) ==
    IF call.kind = "raise"
    THEN call
    ELSE IF call.value.type # "Check"
    THEN Raise(TypeError("'check methods must return `Check` objects'"))
    ELSE call

\* what a finished call of run_ leaves behind: its arguments, how it ended
\* ("done": it returned checks; "raised": it raised error) and the methods
\* it called
Outcome(f, h, end, result, error, invoked) ==
    [filter_ |-> f, halt_on |-> h, pc |-> end, checks |-> result, raised |-> error,
     calls |-> invoked]

NotRun == Outcome(NoFilter, "never", "idle", <<>>, None, <<>>)

\* the time the next handler takes: the clock stops at MaxClock
Elapsed == 0..Min(1, MaxClock - now)

\* Start, were checks a list the instance keeps instead of a local one
Start_accumulating(f, h) ==
    /\ pc \in {"idle", "done", "raised"}
    /\ filter_' = f
    /\ halt_on' = h
    /\ checks' = checks
    /\ i' = Following(methods, 0)
    /\ calls' = <<>>
    /\ IF check_methods(methods) # None
       THEN /\ filtered_methods' = <<>>
            /\ raised' = check_methods(methods)
            /\ pc' = "raised"
       ELSE /\ filtered_methods' = FilteredMethods(methods, f)
            /\ raised' = None
            /\ pc' = "running"
    /\ prev' = IF pc = "idle" THEN prev
               ELSE Outcome(filter_, halt_on, pc, checks, raised, calls)
    /\ UNCHANGED <<heap, runs, methods, now, called, executing, iterable, matched, decorated>>

\* run_(filter_, halt_on=h), up to the end of its first loop, which iterates
\* check_methods() to its end
Start(f, h) ==
    /\ pc \in {"idle", "done", "raised"}
    /\ filter_' = f
    /\ halt_on' = h
    /\ checks' = <<>>
    /\ i' = Following(methods, 0)
    /\ calls' = <<>>
    /\ IF check_methods(methods) # None
       THEN /\ filtered_methods' = <<>>
            /\ raised' = check_methods(methods)
            /\ pc' = "raised"
       ELSE /\ filtered_methods' = FilteredMethods(methods, f)
            /\ raised' = None
            /\ pc' = "running"
    /\ prev' = IF pc = "idle" THEN prev
               ELSE Outcome(filter_, halt_on, pc, checks, raised, calls)
    /\ UNCHANGED <<heap, runs, methods, now, called, executing, iterable, matched, decorated>>

\* one turn of the second loop that ends in "continue"
Skip ==
    /\ pc = "running"
    /\ i <= Len(methods)
    /\ ~Contains(filtered_methods, i)
    /\ Skips(methods[i], filtered_methods)
    /\ i' = NextMethod(i)
    /\ UNCHANGED <<heap, runs, methods, filter_, halt_on, pc, filtered_methods, checks,
                   raised, prev, calls, now, called, executing, iterable, matched,
                   decorated>>

\* one turn of the second loop that calls the method
Execute(d) ==
    /\ pc = "running"
    /\ i <= Len(methods)
    /\ Contains(filtered_methods, i) \/ ~Skips(methods[i], filtered_methods)
    /\ IsCheckable(methods[i]) \/ d = 0
    /\ LET method == methods[i]
           remaining == IF Contains(filtered_methods, i)
                        THEN Remove(filtered_methods, i)
                        ELSE filtered_methods
           call == Returned(CallMethod(method, now, now + d))
       IN  /\ filtered_methods' = remaining
           /\ calls' = Append(calls, i)
           /\ now' = now + d
           /\ IF call.kind = "raise"
              THEN /\ pc' = "raised"
                   /\ raised' = Some(call.error)
                   /\ UNCHANGED <<checks, i>>
              ELSE /\ checks' = Collect(checks, call.value)
                   /\ raised' = None
                   /\ IF Halts(call.value, halt_on)
                      THEN pc' = "done" /\ i' = i
                      ELSE pc' = "running" /\ i' = NextMethod(i)
    /\ UNCHANGED <<heap, runs, methods, filter_, halt_on, prev, called, executing, iterable,
                   matched, decorated>>

\* the second loop is exhausted: return checks
ReturnChecks ==
    /\ pc = "running"
    /\ i > Len(methods)
    /\ pc' = "done"
    /\ UNCHANGED <<heap, runs, methods, filter_, halt_on, i, filtered_methods, checks,
                   raised, prev, calls, now, called, executing, iterable, matched,
                   decorated>>

-----------------------------------------------------------------------------
(* The collections, filters and handlers examined *)

RuntimeError == PyException("RuntimeError", "'boom'")
KeyboardInterrupt == PyBaseException("KeyboardInterrupt", "")

Tagsets == {None, Some({"x"})}

\* what a hand-written method returns: a passing check, a required check it
\* never ran, or something that is no Check
PlainOutcomes ==
    {Return([NewCheck(<<"plain">>, Some(<<"plain">>), FALSE, None, 0) EXCEPT !.success = Some(TRUE)]),
     Return(NewCheck(<<"plain">>, Some(<<"plain">>), TRUE, None, 0)),
     Return(PyStr("not a check"))}

\* a method apart from its place in the collection
DecoratedShape(is_async, required, tags, outcome) ==
    [decorated |-> TRUE, is_async |-> is_async, required |-> required,
     tags |-> tags, outcome |-> outcome]
PlainShape(outcome) ==
    [decorated |-> FALSE, is_async |-> FALSE, required |-> FALSE,
     tags |-> None, outcome |-> outcome]

\* the method of that shape at position k
MethodAt(k, shape) ==
    IF shape.decorated
    THEN Decorated(k, shape.is_async, shape.required, shape.tags, shape.outcome)
    ELSE Plain(k, shape.outcome)

\* the methods examined: decorated ones that pass, untagged ones that return
\* False, tagged ones that raise (sync and async), and hand-written ones
Shapes ==
    {DecoratedShape(FALSE, required, tags, Return(PyBool(TRUE))) :
        required \in BOOLEAN, tags \in Tagsets}
    \cup {DecoratedShape(FALSE, required, None, Return(PyBool(FALSE))) :
        required \in BOOLEAN}
    \cup {DecoratedShape(FALSE, FALSE, Some({"x"}), Raise(RuntimeError)),
          DecoratedShape(TRUE, TRUE, Some({"x"}), Raise(RuntimeError))}
    \cup {PlainShape(outcome) : outcome \in PlainOutcomes}

\* the collections of up to MaxMethods methods of the given shapes
CollectionsOf(shapes) ==
    UNION {{[k \in 1..n |-> MethodAt(k, sh[k])] : sh \in [1..n -> shapes]} :
               n \in 1..MaxMethods}

Collections == CollectionsOf(Shapes)

Filters == {NoFilter, Filter(PyNone, PyNone, None), Filter(PyNone, PyNone, Some({"x"}))}

\* [A(required), B, C(required), D], where only D carries the tag x
ExampleABCD ==
    <<Decorated(1, FALSE, TRUE, None, Return(PyBool(TRUE))),
      Decorated(2, FALSE, FALSE, None, Return(PyBool(TRUE))),
      Decorated(3, FALSE, TRUE, None, Return(PyBool(TRUE))),
      Decorated(4, FALSE, FALSE, Some({"x"}), Return(PyBool(TRUE)))>>

\* [A, B(required, fails), C]
ExampleABC ==
    <<Decorated(1, FALSE, FALSE, None, Return(PyBool(TRUE))),
      Decorated(2, FALSE, TRUE, None, Return(PyBool(FALSE))),
      Decorated(3, FALSE, FALSE, None, Return(PyBool(TRUE)))>>

Examples == {ExampleABCD, ExampleABC}

Init ==
    /\ methods \in Collections \cup Examples
    /\ filter_ = NoFilter
    /\ halt_on = "requirement"
    /\ pc = "idle"
    /\ i = 1
    /\ filtered_methods = <<>>
    /\ checks = <<>>
    /\ raised = None
    /\ prev = NotRun
    /\ calls = <<>>
    /\ now = 0
    /\ called = None
    /\ executing = {}
    /\ iterable = <<>>
    /\ matched = None
    /\ decorated = None
    /\ heap = <<>>
    /\ runs = <<>>

\* one call of BaseChecks.run on a collection
Next ==
    \/ \E f \in Filters, h \in HaltOnFailed : pc = "idle" /\ Start(f, h)
    \/ Skip
    \/ \E d \in Elapsed : Execute(d)
    \/ ReturnChecks

Spec == Init /\ [][Next]_vars

-----------------------------------------------------------------------------
(* Calling BaseChecks.run again on the same collection *)

\* the methods examined when runs are compared
RerunShapes ==
    {DecoratedShape(FALSE, FALSE, None, Return(PyBool(TRUE))),
     DecoratedShape(FALSE, TRUE, Some({"x"}), Return(PyBool(TRUE))),
     DecoratedShape(FALSE, TRUE, None, Return(PyBool(FALSE))),
     DecoratedShape(TRUE, FALSE, Some({"x"}), Raise(RuntimeError)),
     PlainShape(Return(NewCheck(<<"plain">>, Some(<<"plain">>), TRUE, None, 0)))}

InitRerun ==
    /\ methods \in CollectionsOf(RerunShapes) \cup Examples
    /\ filter_ = NoFilter
    /\ halt_on = "requirement"
    /\ pc = "idle"
    /\ i = 1
    /\ filtered_methods = <<>>
    /\ checks = <<>>
    /\ raised = None
    /\ prev = NotRun
    /\ calls = <<>>
    /\ now = 0
    /\ called = None
    /\ executing = {}
    /\ iterable = <<>>
    /\ matched = None
    /\ decorated = None
    /\ heap = <<>>
    /\ runs = <<>>

\* two calls of BaseChecks.run in a row on one collection
NextRerun ==
    \/ \E f \in Filters, h \in HaltOnFailed : prev = NotRun /\ Start(f, h)
    \/ Skip
    \/ \E d \in Elapsed : Execute(d)
    \/ ReturnChecks

SpecRerun == InitRerun /\ [][NextRerun]_vars

\* ---------------------------------------------------------------------
\* Discovery: classes whose methods check_methods passes over or rejects
\* ---------------------------------------------------------------------

\* the methods a class may define at position k: checks made by the
\* decorator, a check method annotated -> "Check", a private helper, a
\* public method whose name lacks the check_ prefix, a check_ method that
\* takes a parameter, a check_ method annotated -> bool
DiscoveryShapes ==
    {"decorated", "required", "annotated", "private", "misnamed",
     "parameter", "returns_bool"}

Passing(k) == Return(NewCheck(MethodName(k), Some(MethodName(k)), FALSE, None, 0))

DiscoveredAt(k, shape) ==
    CASE shape = "decorated" ->
             Decorated(k, FALSE, FALSE, None, Return(PyBool(TRUE)))
      [] shape = "required" ->
             Decorated(k, FALSE, TRUE, Some({"x"}), Return(PyBool(FALSE)))
      [] shape = "annotated" ->
             [Plain(k, Passing(k)) EXCEPT !.signature = CHECK_SIGNATURE_ANNOTATED]
      [] shape = "private" ->
             [Plain(k, Passing(k)) EXCEPT !.name = <<"_", Letters[k]>>]
      [] shape = "misnamed" ->
             [Plain(k, Passing(k)) EXCEPT !.name = <<"helper_", Letters[k]>>]
      [] shape = "parameter" ->
             [Plain(k, Passing(k)) EXCEPT
                  !.signature = Signature(<<Param("item", "POSITIONAL_OR_KEYWORD")>>,
                                          Class("Check"))]
      [] shape = "returns_bool" ->
             [Plain(k, Return(PyBool(TRUE))) EXCEPT
                  !.signature = Signature(<<>>, Class("bool"))]

DiscoveryCollections ==
    UNION {{[k \in 1..n |-> DiscoveredAt(k, sh[k])] : sh \in [1..n -> DiscoveryShapes]} :
               n \in 1..MaxMethods}

InitDiscovery ==
    /\ methods \in DiscoveryCollections
    /\ filter_ = NoFilter
    /\ halt_on = "requirement"
    /\ pc = "idle"
    /\ i = 1
    /\ filtered_methods = <<>>
    /\ checks = <<>>
    /\ raised = None
    /\ prev = NotRun
    /\ calls = <<>>
    /\ now = 0
    /\ called = None
    /\ executing = {}
    /\ iterable = <<>>
    /\ matched = None
    /\ decorated = None
    /\ heap = <<>>
    /\ runs = <<>>

SpecDiscovery == InitDiscovery /\ [][Next]_vars

-----------------------------------------------------------------------------
(* BaseChecks.run_ with the bodies of asynchronous methods in progress *)

\* Await, were the coroutine started as a task and the loop to go on
Await_not(k) == [pc |-> "running", i |-> k + 1]

\* "await method()": run_ is suspended at the method at position k until the
\* body of the method has ended
Await(k) == [pc |-> "awaiting", i |-> k]

\* one turn of the second loop calls an asynchronous method: its body begins
Call ==
    /\ pc = "running"
    /\ i <= Len(methods)
    /\ methods[i].is_async
    /\ Contains(filtered_methods, i) \/ ~Skips(methods[i], filtered_methods)
    /\ filtered_methods' = IF Contains(filtered_methods, i)
                           THEN Remove(filtered_methods, i)
                           ELSE filtered_methods
    /\ calls' = Append(calls, i)
    /\ executing' = executing \cup {i}
    /\ pc' = Await(i).pc
    /\ i' = Await(i).i
    /\ UNCHANGED <<heap, runs, methods, filter_, halt_on, checks, raised, prev, now, called,
                   iterable, matched, decorated>>

\* the body of the method run_ awaits ends after d: run_ goes on with what
\* it gave back
Resume(d) ==
    /\ pc = "awaiting"
    /\ i \in executing
    /\ LET call == Returned(CallMethod(methods[i], now, now + d))
       IN  /\ executing' = executing \ {i}
           /\ now' = now + d
           /\ IF call.kind = "raise"
              THEN /\ pc' = "raised"
                   /\ raised' = Some(call.error)
                   /\ UNCHANGED <<checks, i>>
              ELSE /\ checks' = Collect(checks, call.value)
                   /\ raised' = None
                   /\ IF Halts(call.value, halt_on)
                      THEN pc' = "done" /\ i' = i
                      ELSE pc' = "running" /\ i' = NextMethod(i)
    /\ UNCHANGED <<heap, runs, methods, filter_, halt_on, filtered_methods, prev, calls, called,
                   iterable, matched, decorated>>

\* one turn of the second loop calls a method that is no coroutine function
ExecuteSync(d) ==
    /\ i <= Len(methods)
    /\ ~methods[i].is_async
    /\ Execute(d)

\* the methods examined: asynchronous ones that pass, fail or raise, a
\* synchronous one and a hand-written one
AsyncShapes ==
    {DecoratedShape(TRUE, FALSE, None, Return(PyBool(TRUE))),
     DecoratedShape(TRUE, TRUE, Some({"x"}), Return(PyBool(TRUE))),
     DecoratedShape(TRUE, TRUE, None, Return(PyBool(FALSE))),
     DecoratedShape(TRUE, FALSE, Some({"x"}), Raise(RuntimeError)),
     DecoratedShape(FALSE, FALSE, None, Return(PyBool(TRUE))),
     PlainShape(Return(NewCheck(<<"plain">>, Some(<<"plain">>), TRUE, None, 0)))}

InitAsync ==
    /\ methods \in CollectionsOf(AsyncShapes)
    /\ filter_ = NoFilter
    /\ halt_on = "requirement"
    /\ pc = "idle"
    /\ i = 1
    /\ filtered_methods = <<>>
    /\ checks = <<>>
    /\ raised = None
    /\ prev = NotRun
    /\ calls = <<>>
    /\ now = 0
    /\ called = None
    /\ executing = {}
    /\ iterable = <<>>
    /\ matched = None
    /\ decorated = None
    /\ heap = <<>>
    /\ runs = <<>>

NextAsync ==
    \/ \E f \in Filters, h \in HaltOnFailed : pc = "idle" /\ Start(f, h)
    \/ Skip
    \/ Call
    \/ \E d \in Elapsed : Resume(d)
    \/ \E d \in Elapsed : ExecuteSync(d)
    \/ ReturnChecks

SpecAsync == InitAsync /\ [][NextAsync]_vars

-----------------------------------------------------------------------------
(* create_checks_from_iterable *)

\* an item that has a __check__ method, which returns check; outcome is what
\* handler(item) does
CheckableItem(check, outcome) ==
    [check |-> Some(check), name |-> check.name, outcome |-> outcome]

\* any other item: name is item.name if it has one, else str(item)
NamedItem(name, outcome) == [check |-> None, name |-> name, outcome |-> outcome]

\* "check = item.__check__().copy()", or "check = Check(name=f"Check {name}")"
ItemCheck(item) ==
    IF item.check # None
    THEN item.check[1]
    ELSE NewCheck(<<"Check ">> \o item.name, None, FALSE, None, 0)

\* fn = create_fn(name, item); fn.__check__ = check; method_name =
\* f"check_{check.id}": a coroutine method that runs handler(item) on a copy
ItemMethod(item) ==
    [name |-> <<"check_">> \o ItemCheck(item).id, is_async |-> TRUE,
     check |-> Some(ItemCheck(item)), outcome |-> item.outcome,
     signature |-> CHECK_SIGNATURE]

\* setattr(cls, method_name, fn): a new attribute is added after the others,
\* an attribute that exists is replaced where it is
setattr(ms, method) ==
    IF \E k \in 1..Len(ms) : ms[k].name = method.name
    THEN [k \in 1..Len(ms) |-> IF ms[k].name = method.name THEN method ELSE ms[k]]
    ELSE Append(ms, method)

\* "for item in iterable: ...": the methods of the class, from those of the
\* items up to the n-th
RECURSIVE create_checks(_, _)
create_checks(items, n) ==
    IF n = 0 THEN <<>>
    ELSE setattr(create_checks(items, n - 1), ItemMethod(items[n]))

\* create_checks_from_iterable(handler, iterable)
create_checks_from_iterable(items) == create_checks(items, Len(items))

\* the items examined: queries with a name, two of them with the same name,
\* and items that are Checkable, tagged and required
Items ==
    {NamedItem(<<"q1">>, Return(PyBool(TRUE))),
     NamedItem(<<"q1">>, Return(PyBool(FALSE))),
     NamedItem(<<"q2">>, Return(PyStr("ok"))),
     NamedItem(<<"q3">>, Raise(RuntimeError)),
     CheckableItem(NewCheck(<<"Check ", "q4">>, Some(<<"q4">>), TRUE, Some({"x"}), 0),
                   Return(PyBool(TRUE))),
     CheckableItem(NewCheck(<<"Check ", "q5">>, Some(<<"q5">>), TRUE, None, 0),
                   Return(PyBool(FALSE)))}

Iterables == UNION {[1..n -> Items] : n \in 1..MaxMethods}

InitIterable ==
    /\ iterable \in Iterables
    /\ methods = create_checks_from_iterable(iterable)
    /\ filter_ = NoFilter
    /\ halt_on = "requirement"
    /\ pc = "idle"
    /\ i = 1
    /\ filtered_methods = <<>>
    /\ checks = <<>>
    /\ raised = None
    /\ prev = NotRun
    /\ calls = <<>>
    /\ now = 0
    /\ called = None
    /\ executing = {}
    /\ matched = None
    /\ decorated = None
    /\ heap = <<>>
    /\ runs = <<>>

\* one call of run on the class create_checks_from_iterable returns
SpecIterable == InitIterable /\ [][Next]_vars

-----------------------------------------------------------------------------
(* Calling one check directly: Check.run and a decorated function *)

\* Check.run(name, handler=...): a new Check, run by run_check_handler;
\* called records what the handler did, what the call gave back and the
\* Check as the runner left it
CheckRun(name, outcome, d) ==
    /\ pc = "idle"
    /\ LET check == NewCheck(name, None, FALSE, None, now)
           ran == run_check_handler(check, outcome, now, now + d)
       IN  called' = Some([op |-> "Check.run",
                           handler |-> outcome,
                           result |-> IF ran.error = None
                                      THEN Return(ran.check)
                                      ELSE Raise(ran.error[1]),
                           check |-> ran.check])
    /\ now' = now + d
    /\ UNCHANGED <<heap, runs, methods, filter_, halt_on, pc, i, filtered_methods, checks,
                   raised, prev, calls, executing, iterable, matched, decorated>>

\* fn(): a function written with the check decorator, called by itself
CallCheck(method, d) ==
    /\ pc = "idle"
    /\ called' = Some([op |-> "run_check",
                        handler |-> method.outcome,
                        result |-> run_check(method, now, now + d),
                        check |-> run_check_copy(method, now, now + d).check])
    /\ now' = now + d
    /\ UNCHANGED <<heap, runs, methods, filter_, halt_on, pc, i, filtered_methods, checks,
                   raised, prev, calls, executing, iterable, matched, decorated>>

\* what a handler can do: the accepted return shapes, an exception raised or
\* returned, and values of other types or shapes
HandlerOutcomes ==
    {Return(PyBool(TRUE)), Return(PyBool(FALSE)),
     Return(PyStr("ok")),
     Return(PyTuple(<<PyBool(TRUE), PyStr("ok")>>)),
     Return(PyTuple(<<PyBool(FALSE), PyStr("no")>>)),
     Return(PyNone),
     Raise(RuntimeError),
     Raise(KeyboardInterrupt),
     Return(RuntimeError),
     Return(PyInt(42)),
     Return(PyTuple(<<PyBool(TRUE)>>)),
     Return(PyTuple(<<PyBool(TRUE), PyInt(42)>>)),
     Return(PyTuple(<<PyBool(FALSE), PyInt(42)>>)),
     Return(PyTuple(<<PyBool(FALSE)>>)),
     Return(PyTuple(<<PyStr("ok"), PyBool(TRUE)>>))}

HandlerNames == {CheckName(1), <<"db", "-conn">>}

DecoratedFunctions ==
    {Decorated(1, is_async, required, tags, outcome) :
        is_async \in BOOLEAN, required \in BOOLEAN, tags \in Tagsets,
        outcome \in HandlerOutcomes}

InitHandler ==
    /\ methods = <<>>
    /\ filter_ = NoFilter
    /\ halt_on = "requirement"
    /\ pc = "idle"
    /\ i = 1
    /\ filtered_methods = <<>>
    /\ checks = <<>>
    /\ raised = None
    /\ prev = NotRun
    /\ calls = <<>>
    /\ now = 0
    /\ called = None
    /\ executing = {}
    /\ iterable = <<>>
    /\ matched = None
    /\ decorated = None
    /\ heap = <<>>
    /\ runs = <<>>

NextHandler ==
    \/ \E name \in HandlerNames, outcome \in HandlerOutcomes, d \in Elapsed :
           CheckRun(name, outcome, d)
    \/ \E method \in DecoratedFunctions, d \in Elapsed : CallCheck(method, d)

SpecHandler == InitHandler /\ [][NextHandler]_vars

-----------------------------------------------------------------------------
(* Calling Filter.matches on one check *)

\* filter.matches(check)
Match(f, check) ==
    /\ pc = "idle"
    /\ matched' = Some([filter |-> f, check |-> check, result |-> matches(f, check)])
    /\ UNCHANGED <<heap, runs, methods, filter_, halt_on, pc, i, filtered_methods, checks,
                   raised, prev, calls, now, called, executing, iterable, decorated>>

DbConn == <<"db", "-conn">>
CacheConn == <<"cache", "-conn">>

\* what the name or id of a Filter can hold: nothing, a str, a sequence of
\* str, and a pattern compiled from "^db" or from "-conn"
FilterAttrs ==
    {PyNone, PyStr(DbConn), PyList(<<CacheConn, CheckName(1)>>),
     Pattern(TRUE, <<"db">>), Pattern(FALSE, <<"-conn">>)}

\* the ids a Filter is given: none, a str, a sequence of str, the pattern "^db"
FilterIds == {PyNone, PyStr(DbConn), PyList(<<DbConn, CheckName(1)>>), Pattern(TRUE, <<"db">>)}

FilterTags == {None, Some({}), Some({"x"}), Some({"x", "y"})}

MatchFilters ==
    {Filter(name, id, tags) : name \in FilterAttrs, id \in FilterIds, tags \in FilterTags}

CheckTags == {None, Some({"x"}), Some({"y"}), Some({"x", "y"})}

\* checks as the decorator makes them, with or without an id of their own
MatchChecks ==
    {NewCheck(name, id, FALSE, tags, 0) :
        name \in {DbConn, CacheConn, CheckName(1), <<"db">>},
        id \in {None, Some(DbConn), Some(CacheConn)},
        tags \in CheckTags}

InitFilter ==
    /\ methods = <<>>
    /\ filter_ = NoFilter
    /\ halt_on = "requirement"
    /\ pc = "idle"
    /\ i = 1
    /\ filtered_methods = <<>>
    /\ checks = <<>>
    /\ raised = None
    /\ prev = NotRun
    /\ calls = <<>>
    /\ now = 0
    /\ called = None
    /\ executing = {}
    /\ iterable = <<>>
    /\ matched = None
    /\ decorated = None
    /\ heap = <<>>
    /\ runs = <<>>

NextFilter == \E f \in MatchFilters, check \in MatchChecks : Match(f, check)

SpecFilter == InitFilter /\ [][NextFilter]_vars

-----------------------------------------------------------------------------
(* The check decorator and _validate_check_handler *)

\* get_args(CheckHandlerResult)
acceptable_types ==
    {Class("bool"), Class("str"), TupleOf(<<Class("bool"), Class("str")>>),
     Class("NoneType")}

\* a handler function: its name, parameters, return annotation, whether it
\* is a coroutine function, and what calling it does
Handler(name, params, returns, is_async, outcome) ==
    [name |-> name, params |-> params, returns |-> returns, is_async |-> is_async,
     outcome |-> outcome]

\* _validate_check_handler(fn): None, or the TypeError it raises
validate_check_handler(fn) ==
    LET unexpected == {k \in 1..Len(fn.params) :
                          ~(/\ fn.params[k].name = "self"
                            /\ fn.params[k].kind = "POSITIONAL_OR_KEYWORD")}
        error == TypeError("'incompatible return type annotation'")
        annotation == fn.returns
    IN  IF unexpected # {}
        THEN Some(TypeError("'unexpected parameter'"))
        ELSE CASE annotation.form = "Union" ->
                      IF annotation.members \ acceptable_types # {}
                      THEN Some(error) ELSE None
               [] annotation.form = "tuple" ->
                      IF annotation.args # <<Class("bool"), Class("str")>>
                      THEN Some(error) ELSE None
               [] annotation.form = "generic" -> Some(error)
               [] annotation.form = "class" ->
                      IF annotation \notin acceptable_types
                      THEN Some(error) ELSE None
               [] annotation.form = "value" ->
                      IF Class(annotation.value.type) \notin acceptable_types
                      THEN Some(error) ELSE None

\* check(name, ...)(fn): the handler is validated, and the runner is made
\* from the metadata and the handler
decorate(name, required, tags, fn) ==
    LET invalid == validate_check_handler(fn)
    IN  IF invalid # None
        THEN Raise(invalid[1])
        ELSE Return([name |-> fn.name, is_async |-> fn.is_async,
                     check |-> Some(decorator(name, fn.name, required, tags)),
                     outcome |-> fn.outcome, signature |-> CHECK_SIGNATURE])

\* a function is decorated; nothing has been called yet
Decorate(fn) ==
    /\ pc = "idle"
    /\ decorated' = Some([fn |-> fn, result |-> decorate(CheckName(1), FALSE, None, fn)])
    /\ called' = None
    /\ UNCHANGED <<heap, runs, methods, filter_, halt_on, pc, i, filtered_methods, checks,
                   raised, prev, calls, now, executing, iterable, matched>>

\* the callable the decorator produced is called
CallDecorated(d) ==
    /\ pc = "idle"
    /\ decorated # None
    /\ decorated[1].result.kind = "return"
    /\ LET method == decorated[1].result.value
       IN  called' = Some([op |-> "run_check",
                           handler |-> method.outcome,
                           result |-> run_check(method, now, now + d),
                           check |-> run_check_copy(method, now, now + d).check])
    /\ now' = now + d
    /\ UNCHANGED <<heap, runs, methods, filter_, halt_on, pc, i, filtered_methods, checks,
                   raised, prev, calls, executing, iterable, matched, decorated>>

\* the signatures examined
ParamLists ==
    {<<>>,
     <<Param("self", "POSITIONAL_OR_KEYWORD")>>,
     <<Param("self", "POSITIONAL_OR_KEYWORD"), Param("item", "POSITIONAL_OR_KEYWORD")>>,
     <<Param("args", "VAR_POSITIONAL")>>}

Annotations ==
    {Class("bool"), Class("str"), Class("int"), Class("tuple"), Empty,
     Value(PyNone), Value(PyStr("bool")), Value(PyStr("int")),
     TupleOf(<<Class("bool"), Class("str")>>),
     TupleOf(<<Class("str"), Class("bool")>>),
     UnionOf({Class("bool"), Class("NoneType")}),
     UnionOf({Class("bool"), Class("str"),
              TupleOf(<<Class("bool"), Class("str")>>), Class("NoneType")}),
     UnionOf({Class("bool"), Class("int")}),
     Generic("list", <<Class("str")>>)}

Handlers ==
    {Handler(MethodName(1), params, returns, is_async, outcome) :
        params \in ParamLists, returns \in Annotations, is_async \in BOOLEAN,
        outcome \in {Return(PyBool(TRUE)), Return(PyInt(42))}}

InitDecorate ==
    /\ methods = <<>>
    /\ filter_ = NoFilter
    /\ halt_on = "requirement"
    /\ pc = "idle"
    /\ i = 1
    /\ filtered_methods = <<>>
    /\ checks = <<>>
    /\ raised = None
    /\ prev = NotRun
    /\ calls = <<>>
    /\ now = 0
    /\ called = None
    /\ executing = {}
    /\ iterable = <<>>
    /\ matched = None
    /\ decorated = None
    /\ heap = <<>>
    /\ runs = <<>>

NextDecorate ==
    \/ \E fn \in Handlers : Decorate(fn)
    \/ \E d \in Elapsed : CallDecorated(d)

SpecDecorate == InitDecorate /\ [][NextDecorate]_vars

\* ---------------------------------------------------------------------
\* Concurrent runs: BaseChecks.run called twice on one class, the two
\* coroutines interleaved where they await. The methods and their
\* __check__ objects belong to the class and are shared; the locals of
\* run_ belong to each call.
\* ---------------------------------------------------------------------

\* the calls of run that are in progress together
Runs == {1, 2}

\* the address of the object that call r of run_ gets from the method at
\* position k: the metadata objects are at 1..Len(methods), and a call of
\* run_ calls a method once at most
Address(r, k) == r * Len(methods) + k

\* __check__.copy(), were the metadata object itself handed to the runner
copy_alias(h, ref, new) == [heap |-> h, ref |-> ref]

\* __check__.copy(): a new object, at the address new, with the fields of
\* the one at ref
copy(h, ref, new) == [heap |-> (new :> h[ref]) @@ h, ref |-> new]

\* the method at position k as the class holds it now: its __check__ is
\* the object at address k
MethodNow(k) == [methods[k] EXCEPT !.check = Some(heap[k])]

MethodsNow == [k \in 1..Len(methods) |-> MethodNow(k)]

\* the locals of run_ before the call
NotStarted ==
    [pc |-> "idle", filter_ |-> NoFilter, halt_on |-> "requirement", i |-> 1,
     filtered_methods |-> <<>>, checks |-> <<>>, raised |-> None, calls |-> <<>>,
     results |-> <<>>, check |-> 0]

\* checks.append(check), were checks one list shared by the calls of run_
Appended_shared(rs, r, ref) ==
    [q \in DOMAIN rs |-> [rs[q] EXCEPT !.checks = Append(@, ref)]]

\* checks.append(check) in the call r of run_: checks holds references
Appended(rs, r, ref) == [rs EXCEPT ![r].checks = Append(@, ref)]

\* the end of one turn of the second loop of call r, whose method returned
\* the object at ref: it is appended (results keeps what the object held
\* when it was returned) and the halt policy is applied
Collected(rs, r, ref, check) ==
    [Appended(rs, r, ref) EXCEPT
        ![r].results = Append(@, check),
        ![r].check = 0,
        ![r].pc = IF Halts(check, rs[r].halt_on) THEN "done" ELSE "running",
        ![r].i = IF Halts(check, rs[r].halt_on) THEN @ ELSE NextMethod(@)]

\* an exception leaves the method and run_
Thrown(rs, r, e) == [rs EXCEPT ![r].pc = "raised", ![r].raised = Some(e), ![r].check = 0]

\* run(config, f, halt_on=h): a new instance, and run_ up to the end of its
\* first loop
StartRun(r, f, h) ==
    /\ runs[r].pc = "idle"
    /\ runs' = [runs EXCEPT
                  ![r].filter_ = f,
                  ![r].halt_on = h,
                  ![r].i = Following(methods, 0),
                  ![r].filtered_methods =
                      IF check_methods(methods) # None THEN <<>>
                      ELSE FilteredMethods(MethodsNow, f),
                  ![r].raised = check_methods(methods),
                  ![r].pc = IF check_methods(methods) # None THEN "raised" ELSE "running"]
    /\ UNCHANGED <<heap, methods, filter_, halt_on, pc, i, filtered_methods, checks,
                   raised, prev, calls, now, called, executing, iterable, matched,
                   decorated>>

\* one turn of the second loop of call r that skips its method
SkipRun(r) ==
    /\ runs[r].pc = "running"
    /\ runs[r].i <= Len(methods)
    /\ ~Contains(runs[r].filtered_methods, runs[r].i)
    /\ Skips(MethodNow(runs[r].i), runs[r].filtered_methods)
    /\ runs' = [runs EXCEPT ![r].i = NextMethod(@)]
    /\ UNCHANGED <<heap, methods, filter_, halt_on, pc, i, filtered_methods, checks,
                   raised, prev, calls, now, called, executing, iterable, matched,
                   decorated>>

\* one turn of the second loop of call r that calls its method: run_check
\* copies the metadata; a synchronous handler runs to its end within the
\* turn, in which the clock does not move, an asynchronous one is awaited
\* after run_check_handler has set run_at
CallRun(r) ==
    /\ runs[r].pc = "running"
    /\ runs[r].i <= Len(methods)
    /\ \/ Contains(runs[r].filtered_methods, runs[r].i)
       \/ ~Skips(MethodNow(runs[r].i), runs[r].filtered_methods)
    /\ LET k == runs[r].i
           method == methods[k]
           remaining == IF Contains(runs[r].filtered_methods, k)
                        THEN Remove(runs[r].filtered_methods, k)
                        ELSE runs[r].filtered_methods
           called_ == [runs EXCEPT ![r].filtered_methods = remaining,
                                  ![r].calls = Append(@, k)]
           new == copy(heap, k, Address(r, k))
           ran == run_check_handler_sync(new.heap[new.ref], method.outcome, now, now)
       IN  IF method.is_async
           THEN /\ heap' = [new.heap EXCEPT ![new.ref].run_at = Some(now)]
                /\ runs' = [called_ EXCEPT ![r].pc = "awaiting", ![r].check = new.ref]
           ELSE /\ heap' = [new.heap EXCEPT ![new.ref] = ran.check]
                /\ runs' = IF ran.error # None
                           THEN Thrown(called_, r, ran.error[1])
                           ELSE Collected(called_, r, new.ref, ran.check)
    /\ UNCHANGED <<methods, filter_, halt_on, pc, i, filtered_methods, checks,
                   raised, prev, calls, now, called, executing, iterable, matched,
                   decorated>>

\* the handler that call r awaits ends after d: run_check_handler records
\* its result in the object it was given and run_ goes on
ResumeRun(r, d) ==
    /\ runs[r].pc = "awaiting"
    /\ LET ref == runs[r].check
           method == methods[runs[r].i]
           ran == run_check_handler(heap[ref], method.outcome, heap[ref].run_at[1],
                                    now + d)
       IN  /\ heap' = [heap EXCEPT ![ref] = ran.check]
           /\ runs' = IF ran.error # None
                      THEN Thrown(runs, r, ran.error[1])
                      ELSE Collected(runs, r, ref, ran.check)
           /\ now' = now + d
    /\ UNCHANGED <<methods, filter_, halt_on, pc, i, filtered_methods, checks,
                   raised, prev, calls, called, executing, iterable, matched,
                   decorated>>

\* the second loop of call r is exhausted: return checks
ReturnRun(r) ==
    /\ runs[r].pc = "running"
    /\ runs[r].i > Len(methods)
    /\ runs' = [runs EXCEPT ![r].pc = "done"]
    /\ UNCHANGED <<heap, methods, filter_, halt_on, pc, i, filtered_methods, checks,
                   raised, prev, calls, now, called, executing, iterable, matched,
                   decorated>>

\* check(name, description=..., ...): the metadata with its description
described(method, description) ==
    [method EXCEPT !.check = Some([@[1] EXCEPT !.description = description])]

\* the methods of the class: decorated checks, asynchronous and synchronous,
\* that pass and that fail by raising, with and without a description
ConcurrentShapes ==
    {[is_async |-> TRUE, required |-> FALSE, tags |-> Some({"x"}),
      outcome |-> Return(PyBool(TRUE)), description |-> Some("about")],
     [is_async |-> TRUE, required |-> TRUE, tags |-> None,
      outcome |-> Raise(RuntimeError), description |-> None],
     [is_async |-> FALSE, required |-> TRUE, tags |-> None,
      outcome |-> Return(PyBool(TRUE)), description |-> Some("about")]}

ConcurrentAt(k, shape) ==
    described(Decorated(k, shape.is_async, shape.required, shape.tags, shape.outcome),
              shape.description)

ConcurrentCollections ==
    UNION {{[k \in 1..n |-> ConcurrentAt(k, sh[k])] : sh \in [1..n -> ConcurrentShapes]} :
               n \in 1..MaxMethods}

\* the arguments of a call of run: filter_ and halt_on
ConcurrentArguments ==
    {<<NoFilter, "requirement">>, <<NoFilter, "never">>,
     <<Filter(PyNone, PyNone, Some({"x"})), "requirement">>}

InitConcurrent ==
    /\ methods \in ConcurrentCollections
    /\ filter_ = NoFilter
    /\ halt_on = "requirement"
    /\ pc = "idle"
    /\ i = 1
    /\ filtered_methods = <<>>
    /\ checks = <<>>
    /\ raised = None
    /\ prev = NotRun
    /\ calls = <<>>
    /\ now = 0
    /\ called = None
    /\ executing = {}
    /\ iterable = <<>>
    /\ matched = None
    /\ decorated = None
    /\ heap = [k \in 1..Len(methods) |-> methods[k].check[1]]
    /\ runs = [r \in Runs |-> NotStarted]

\* two calls of run on one class, the first of them called first; every
\* handler that is awaited takes one tick of the clock, which stops at
\* MaxClock
NextConcurrent ==
    \E r \in Runs :
        \/ \E arguments \in ConcurrentArguments :
               /\ \A q \in Runs : q < r => runs[q].pc # "idle"
               /\ StartRun(r, arguments[1], arguments[2])
        \/ SkipRun(r)
        \/ CallRun(r)
        \/ ResumeRun(r, Min(1, MaxClock - now))
        \/ ReturnRun(r)

SpecConcurrent == InitConcurrent /\ [][NextConcurrent]_vars

\* the type a return annotation declares: the annotation itself, the type
\* a forward reference names, or NoneType for None
Declares(annotation) ==
    IF annotation.form # "value" THEN annotation
    ELSE IF annotation.value.type = "str" THEN Class(annotation.value.s)
    ELSE Class(annotation.value.type)

\* bool, str, Tuple[bool, str], None, or a union of only those
Acceptable(type) ==
    IF type.form = "Union"
    THEN type.members \subseteq acceptable_types
    ELSE type \in acceptable_types

\* C20 as claimed: decorating a handler that declares a parameter other than
\* self, or whose declared return type is not acceptable, raises TypeError
\* and gives no callable, so that the handler is never called; any other
\* handler is accepted, and decorating it does not call it.
C20_Original ==
    decorated # None =>
        LET fn == decorated[1].fn
            result == decorated[1].result
            rejected == \/ \E k \in 1..Len(fn.params) : fn.params[k].name # "self"
                        \/ ~Acceptable(Declares(fn.returns))
        IN  IF rejected
            THEN /\ result.kind = "raise"
                 /\ result.error.cls = "TypeError"
                 /\ called = None
            ELSE result.kind = "return"

-----------------------------------------------------------------------------
(* Properties of Filter *)

\* value meets the constraint a Filter holds on a name or an id: it equals
\* the str, is one of the sequence, or the pattern is found in it
Meets(attr, value) ==
    \/ attr.type = "str" /\ attr.s = value
    \/ attr.type = "list" /\ value \in {attr.items[k] : k \in 1..Len(attr.items)}
    \/ attr.type = "Pattern" /\ search(attr, value)

\* the tags of check and of the filter have a tag in common
SharesTag(f, check) ==
    /\ check.tags # None
    /\ \E tag \in f.tags[1] : tag \in check.tags[1]

\* C14: matches(check) is true iff (name is absent or the name meets it) and
\* (id is absent or the id meets it) and (tags is absent or a tag is shared);
\* a Filter with no constraint matches every check.
C14_AndOfPresentDimensions ==
    matched # None =>
        LET f == matched[1].filter
            check == matched[1].check
        IN  /\ matched[1].result <=>
                  /\ f.name = PyNone \/ Meets(f.name, check.name)
                  /\ f.id = PyNone \/ Meets(f.id, check.id)
                  /\ f.tags = None \/ SharesTag(f, check)
            /\ f = Filter(PyNone, PyNone, None) => matched[1].result

\* C14 witness: a filter with all three constraints rejected a check that
\* meets two of them
C14_Witness ==
    /\ matched # None
    /\ matched[1].filter = Filter(Pattern(TRUE, <<"db">>), PyStr(DbConn), Some({"x"}))
    /\ matched[1].check.name = DbConn
    /\ matched[1].check.id = DbConn
    /\ matched[1].check.tags = Some({"y"})
    /\ ~matched[1].result

\* value is literal, or literal with something before it (when the pattern
\* is not anchored) and something after it
Found(pattern, value) ==
    \E a \in 0..Len(value), b \in 0..Len(value) :
        /\ a <= b
        /\ pattern.anchored => a = 0
        /\ SubSeq(value, a + 1, b) = pattern.literal

\* the constraint attr of a filter, by its kind, is met by value
MeetsByKind(attr, value) ==
    CASE attr.type = "str" -> value = attr.s
      [] attr.type = "list" -> \E k \in DOMAIN attr.items : attr.items[k] = value
      [] attr.type = "Pattern" -> Found(attr, value)

\* C27: a filter that constrains only the name, or only the id, matches a
\* check iff the check's value equals the str, is a member of the sequence,
\* or has the pattern somewhere in it, according to what the filter holds;
\* no filter matches a check whose name or id fails its constraint. The str
\* "db-conn" does not match the name "db", a part of it, and the pattern
\* "-conn" matches "cache-conn", which only ends with it.
C27_MatchByKind ==
    matched # None =>
        LET f == matched[1].filter
            check == matched[1].check
            result == matched[1].result
        IN  /\ (f.name # PyNone /\ f.id = PyNone /\ f.tags = None) =>
                  (result <=> MeetsByKind(f.name, check.name))
            /\ (f.id # PyNone /\ f.name = PyNone /\ f.tags = None) =>
                  (result <=> MeetsByKind(f.id, check.id))
            /\ (result /\ f.name # PyNone) => MeetsByKind(f.name, check.name)
            /\ (result /\ f.id # PyNone) => MeetsByKind(f.id, check.id)
            /\ (f.name = PyStr(DbConn) /\ check.name = <<"db">>) => ~result
            /\ (f = Filter(Pattern(FALSE, <<"-conn">>), PyNone, None)
                    /\ check.name = CacheConn) => result

\* C27 witness: the str "db-conn" was matched against a check named "db",
\* whose id is "db-conn", and did not match
C27_Witness ==
    /\ matched # None
    /\ matched[1].filter = Filter(PyStr(DbConn), PyNone, None)
    /\ matched[1].check.name = <<"db">>
    /\ matched[1].check.id = DbConn
    /\ ~matched[1].result

\* C15: a filter that constrains only the tags matches exactly the checks
\* that have tags and share one with it, and no filter that constrains the
\* tags matches a check without a shared tag: tags={x} matches {x,y} and
\* neither a check without tags nor one tagged {y}.
C15_TagsShareOne ==
    matched # None =>
        LET f == matched[1].filter
            check == matched[1].check
        IN  f.tags # None =>
                /\ matched[1].result => SharesTag(f, check)
                /\ (f.name = PyNone /\ f.id = PyNone) =>
                      (matched[1].result <=> SharesTag(f, check))
                /\ (f = Filter(PyNone, PyNone, Some({"x"}))) =>
                      /\ check.tags = Some({"x", "y"}) => matched[1].result
                      /\ check.tags = None => ~matched[1].result
                      /\ check.tags = Some({"y"}) => ~matched[1].result

\* C15 witness: the filter tags={x,y} matched a check tagged {x} only
C15_Witness ==
    /\ matched # None
    /\ matched[1].filter = Filter(PyNone, PyNone, Some({"x", "y"}))
    /\ matched[1].check.tags = Some({"x"})
    /\ matched[1].result

-----------------------------------------------------------------------------
(* Properties of BaseChecks.run_ *)

Last(seq) == seq[Len(seq)]

\* the run was cut short by the halt policy, at the method at position i
Halted == pc = "done" /\ i <= Len(methods)

\* check is what calling method gives back
ResultOf(method, check) ==
    IF IsCheckable(method)
    THEN /\ check.id = method.check[1].id
         /\ check.name = method.check[1].name
         /\ check.required = method.check[1].required
    ELSE method.outcome = Return(check)

\* C1: with halt_on=requirement, a failed check whose result is required is
\* always the last element of checks and ends the run at once, so that no
\* later method is called; and a run is only ever cut short by such a check,
\* never by a failed check that is not required.
C1_HaltOnRequirement ==
    halt_on = "requirement" =>
        /\ \A j \in 1..Len(checks) :
              (failed(checks[j]) /\ checks[j].required) =>
                  /\ j = Len(checks)
                  /\ pc = "done"
                  /\ Last(calls) = i
        /\ Halted =>
              /\ checks # <<>>
              /\ failed(Last(checks))
              /\ Last(checks).required

\* C1 witness: a run with halt_on=requirement went past a failed check that
\* is not required and was cut short by a failed required one
C1_Witness ==
    /\ halt_on = "requirement"
    /\ Halted
    /\ i < Len(methods)
    /\ Len(checks) >= 2
    /\ failed(checks[1]) /\ ~checks[1].required
    /\ failed(Last(checks)) /\ Last(checks).required

\* C2: with halt_on=check, at most one element of checks is failed, and it
\* is the last: every element before the last has success = True.
C2_HaltOnCheck ==
    halt_on = "check" =>
        \A j \in 1..(Len(checks) - 1) : checks[j].success = Some(TRUE)

\* C2 witness: a run with halt_on=check returned after a failed check that
\* is not required, with passing checks before it and methods left
C2_Witness ==
    /\ halt_on = "check"
    /\ Halted
    /\ i < Len(methods)
    /\ Len(checks) >= 2
    /\ failed(Last(checks)) /\ ~Last(checks).required

\* C3: with halt_on=never and no filter, the list returned holds exactly one
\* result per check method, in definition order.
C3_NeverHalts ==
    (pc = "done" /\ halt_on = "never" /\ filter_ = NoFilter) =>
        /\ Len(checks) = Len(methods)
        /\ calls = Positions(methods)
        /\ \A k \in 1..Len(methods) : ResultOf(methods[k], checks[k])

\* C3 witness: such a run returned all three results although its first
\* check was required and failed
C3_Witness ==
    /\ pc = "done" /\ halt_on = "never" /\ filter_ = NoFilter
    /\ Len(methods) = 3
    /\ Len(checks) = 3
    /\ failed(checks[1]) /\ checks[1].required
    /\ failed(checks[2])

\* the filter constrains the run: "filter_ and filter_.any"
Filtering == filter_ # NoFilter /\ any(filter_)

\* the method at position k was called, and is the n-th call of the run
Called(k) == Contains(calls, k)
CallOf(k) == CHOOSE n \in 1..Len(calls) : calls[n] = k

FilterTagX == Filter(PyNone, PyNone, Some({"x"}))

Ids(results) == [j \in 1..Len(results) |-> results[j].id]

\* C4: whenever a method the filter selects has been called, every method
\* defined before it whose metadata is required has been called earlier in
\* the same run, selected or not; and for [A(required), B, C(required), D]
\* with a filter that selects only D, the list returned is [A, C, D].
C4_RequiredFirst ==
    /\ \A s \in 1..Len(methods) : \A r \in 1..(s - 1) :
          (/\ Called(s)
           /\ Selects(filter_, methods[s])
           /\ IsCheckable(methods[r])
           /\ methods[r].check[1].required)
          => (Called(r) /\ CallOf(r) < CallOf(s))
    /\ (pc = "done" /\ methods = ExampleABCD /\ filter_ = FilterTagX) =>
          Ids(checks) = <<MethodName(1), MethodName(3), MethodName(4)>>

\* C4 witness: the run of the example under the tag filter returned three
\* results, the last one of D
C4_Witness ==
    /\ pc = "done" /\ methods = ExampleABCD /\ filter_ = FilterTagX
    /\ Len(checks) = 3
    /\ calls = <<1, 3, 4>>
    /\ Last(checks).tags = Some({"x"})

\* C5: the methods are called in definition order, none twice, and checks
\* holds their results in that order: it is a subsequence of the methods.
C5_DefinitionOrder ==
    /\ \A a, b \in 1..Len(calls) : a < b => calls[a] < calls[b]
    /\ \A n \in 1..Len(calls) : calls[n] \in 1..Len(methods)
    /\ Len(checks) = IF pc = "raised" THEN Len(calls) - 1 ELSE Len(calls)
    /\ \A n \in 1..Len(checks) : ResultOf(methods[calls[n]], checks[n])

\* C5 witness: a filtered run returned the results of the first and the
\* third method and skipped the second
C5_Witness ==
    /\ pc = "done"
    /\ calls = <<1, 3>>
    /\ Len(checks) = 2
    /\ checks[1].id = MethodName(1) /\ checks[2].id = MethodName(3)

\* the results of a run apart from when each check ran and how long it took
Untimed(results) ==
    [j \in 1..Len(results) |-> [results[j] EXCEPT !.run_at = None, !.runtime = None]]

IsPrefix(a, b) == Len(a) <= Len(b) /\ SubSeq(b, 1, Len(a)) = a

\* halt policy h1 halts wherever h2 does
Stricter(h1, h2) ==
    \/ h1 = "check" /\ h2 \in {"requirement", "never"}
    \/ h1 = "requirement" /\ h2 = "never"

\* C6: of two runs of the same collection under the same filter that both
\* returned, the one with the stricter halt policy (check before requirement
\* before never) returned a prefix of what the other returned, timing apart;
\* and a run cut short returns the failed check that cut it as its last element.
C6_HaltTruncates ==
    /\ (pc = "done" /\ prev.pc = "done" /\ prev.filter_ = filter_) =>
          /\ Stricter(prev.halt_on, halt_on) =>
                IsPrefix(Untimed(prev.checks), Untimed(checks))
          /\ Stricter(halt_on, prev.halt_on) =>
                IsPrefix(Untimed(checks), Untimed(prev.checks))
    /\ Halted =>
          /\ checks # <<>>
          /\ failed(Last(checks))
          /\ Last(calls) = i
          /\ ResultOf(methods[i], Last(checks))

\* C6 witness: a run with halt_on=requirement was cut short after a run
\* with halt_on=check under the same filter had returned a shorter list
C6_Witness ==
    /\ pc = "done" /\ prev.pc = "done" /\ prev.filter_ = filter_
    /\ prev.halt_on = "check" /\ halt_on = "requirement"
    /\ Halted
    /\ prev.checks # <<>>
    /\ Len(prev.checks) < Len(checks)

\* C16: a second call of run_ on the same instance with the filter and halt
\* policy of the first ends the way the first did: it calls the same methods
\* again, all of them, and returns an equal list (or raises the same error),
\* apart from when each check ran and how long it took.
C16_RerunRepeats ==
    (/\ pc \in {"done", "raised"}
     /\ prev.pc # "idle"
     /\ prev.filter_ = filter_
     /\ prev.halt_on = halt_on)
    => /\ pc = prev.pc
       /\ calls = prev.calls
       /\ Untimed(checks) = Untimed(prev.checks)
       /\ raised = prev.raised

\* C16 witness: the second of two such runs called both methods again, later
\* than the first run did, and returned as many results
C16_Witness ==
    /\ pc = "done" /\ prev.pc = "done"
    /\ prev.filter_ = filter_ /\ prev.halt_on = halt_on
    /\ calls = <<1, 2>> /\ prev.calls = <<1, 2>>
    /\ Len(checks) = 2 /\ Len(prev.checks) = 2
    /\ prev.checks[1].run_at = Some(0)
    /\ checks[1].run_at = Some(1)

\* C17: at most one body is in progress at any time; while one is, run_
\* waits for it and every method called before it has its result in checks;
\* and a method is only called after the halt policy has looked at the
\* result of every method called before it and let the run go on.
C17_Sequential ==
    /\ Cardinality(executing) <= 1
    /\ executing # {} =>
          /\ pc = "awaiting"
          /\ executing = {Last(calls)}
          /\ Len(checks) = Len(calls) - 1
    /\ \A n \in 1..(Len(calls) - 1) :
          /\ n <= Len(checks)
          /\ ResultOf(methods[calls[n]], checks[n])
          /\ ~Halts(checks[n], halt_on)

\* C17 witness: the body of the second method, an asynchronous one, is in
\* progress after the result of the first, asynchronous too, was appended
C17_Witness ==
    /\ executing = {2}
    /\ calls = <<1, 2>>
    /\ methods[1].is_async /\ methods[2].is_async
    /\ Len(checks) = 1
    /\ failed(checks[1])

\* check records what the handler did
Records(check, outcome) ==
    IF outcome.kind = "raise"
    THEN check.success = Some(FALSE) /\ check.exception = Some(outcome.error)
    ELSE CASE outcome.value.type = "bool" ->
                  check.success = Some(outcome.value.b) /\ check.message = None
           [] outcome.value.type = "str" ->
                  check.success = Some(TRUE) /\ check.message = Some(outcome.value.s)
           [] OTHER -> TRUE

\* C19 as claimed: a run with no filter and halt_on=never of the class made
\* from an iterable returns one result per item, in iteration order, and the
\* k-th result records what the handler did with the k-th item.
C19_Original ==
    (pc = "done" /\ halt_on = "never" /\ filter_ = NoFilter /\ iterable # <<>>) =>
        /\ Len(checks) = Len(iterable)
        /\ \A k \in 1..Len(iterable) :
              k <= Len(checks) =>
                  /\ checks[k].name = ItemCheck(iterable[k]).name
                  /\ Records(checks[k], iterable[k].outcome)

\* the loop of run_ has dealt with the method at position k
Passed(k) == k < i \/ (pc \in {"done", "raised"} /\ k = i)

\* the metadata of the method at position k satisfies the filter of the run
Satisfies(k) ==
    /\ IsCheckable(methods[k])
    /\ \/ filter_ = NoFilter
       \/ matches(filter_, methods[k].check[1])

\* position s is called later than the n-th call, or not at all so far
NotYetRun(s, n) == \A m \in 1..n : calls[m] # s

\* C21: under a filter with an active constraint, a method with metadata
\* that the filter does not select is called only if its metadata is
\* required and some selected method defined after it had not run yet when
\* it was called; so no unselected method that is not required is called,
\* and no unselected one defined after the last selected method.
C21_UnselectedOnlyAsPrecondition ==
    Filtering =>
        \A n \in 1..Len(calls) :
            LET k == calls[n]
            IN  (IsCheckable(methods[k]) /\ ~Satisfies(k)) =>
                    /\ methods[k].check[1].required
                    /\ \E s \in (k + 1)..Len(methods) :
                          Satisfies(s) /\ NotYetRun(s, n)

\* C21 witness: a filtered run called a required method the filter does not
\* select, then the selected one, and skipped the required unselected method
\* defined after it
C21_Witness ==
    /\ Filtering /\ pc = "done"
    /\ Len(methods) = 3
    /\ calls = <<1, 2>>
    /\ \A k \in {1, 3} : /\ IsCheckable(methods[k])
                          /\ ~Satisfies(k)
                          /\ methods[k].check[1].required
    /\ Satisfies(2)

\* the number of times the method at position k was called
TimesCalled(k) == Cardinality({n \in 1..Len(calls) : calls[n] = k})

\* C22: every method whose metadata satisfies the filter, and that the run
\* has reached, was called exactly once and its result is in checks (unless
\* its call raised); so a run with halt_on=never that returns has exactly one
\* result for every such method.
C22_SelectedRunOnce ==
    /\ \A k \in 1..Len(methods) :
          (pc # "idle" /\ Satisfies(k)) =>
              /\ TimesCalled(k) <= 1
              /\ Passed(k) =>
                    /\ TimesCalled(k) = 1
                    /\ (pc = "raised" /\ k = i) \/
                          (/\ CallOf(k) <= Len(checks)
                           /\ ResultOf(methods[k], checks[CallOf(k)]))
    /\ (pc = "done" /\ halt_on = "never") =>
          \A k \in 1..Len(methods) :
              Satisfies(k) =>
                  Cardinality({n \in 1..Len(checks) :
                                  checks[n].id = methods[k].check[1].id}) = 1

\* C22 witness: a run with halt_on=never under the tag filter returned the
\* results of both tagged methods, the first of which had failed, and
\* skipped the untagged method between them
C22_Witness ==
    /\ pc = "done" /\ halt_on = "never" /\ filter_ = FilterTagX
    /\ Len(methods) = 3
    /\ Satisfies(1) /\ ~Satisfies(2) /\ Satisfies(3)
    /\ calls = <<1, 3>>
    /\ Len(checks) = 2
    /\ failed(checks[1])

\* C7 as claimed: under a filter with an active constraint a method without
\* metadata is never called.
\* the halt policy applies to a result
Applies(check) ==
    \/ halt_on = "check"
    \/ halt_on = "requirement" /\ check.required

\* C25: failed is true of a result exactly when its success is not true,
\* null included, and the halt policy goes by it: a result whose success is
\* null or false, under halt_on=check or under halt_on=requirement when it
\* is required, is the last of the list and ends the run, so that a check
\* method returning a never-run Check halts like a failed one; a result whose
\* success is true never cuts the run short.
C25_NullCountsAsFailed ==
    /\ \A n \in 1..Len(checks) :
          /\ failed(checks[n]) <=> checks[n].success \in {None, Some(FALSE)}
          /\ (checks[n].success \in {None, Some(FALSE)} /\ Applies(checks[n])) =>
                /\ n = Len(checks)
                /\ pc = "done"
    /\ Halted => Last(checks).success \in {None, Some(FALSE)} /\ Applies(Last(checks))

\* a run under halt_on=requirement ended by a required Check that was
\* returned never run, with a later method left uncalled
C25_Witness ==
    /\ halt_on = "requirement"
    /\ pc = "done"
    /\ Len(checks) >= 2
    /\ Last(checks).success = None
    /\ Last(checks).required
    /\ Last(calls) < Len(methods)

\* Filter(): no name, id or tags constraint
EmptyFilter == Filter(PyNone, PyNone, None)

\* C26: of two runs on one collection under the same halt policy, one with
\* no filter and one with a Filter that has no name, id or tags constraint,
\* both call the same methods in the same order and end alike, returning
\* equal lists (apart from when each check ran and how long it took) or
\* raising the same error, methods without metadata included.
C26_EmptyFilterIsNoFilter ==
    (/\ pc \in {"done", "raised"}
     /\ prev.pc # "idle"
     /\ prev.halt_on = halt_on
     /\ {prev.filter_, filter_} = {NoFilter, EmptyFilter})
    => /\ pc = prev.pc
       /\ calls = prev.calls
       /\ Untimed(checks) = Untimed(prev.checks)
       /\ raised = prev.raised

\* a run without filter and then a run with Filter() on a collection with a
\* decorated method and a method without metadata, both returning two results
C26_Witness ==
    /\ pc = "done" /\ prev.pc = "done"
    /\ prev.halt_on = halt_on
    /\ prev.filter_ = NoFilter /\ filter_ = EmptyFilter
    /\ \E k \in 1..Len(methods) : IsCheckable(methods[k])
    /\ \E n \in 1..Len(calls) : ~IsCheckable(methods[calls[n]])
    /\ Len(checks) >= 2 /\ Len(prev.checks) = Len(checks)

\* C29: when every method of the collection has metadata and the filter has
\* a constraint that the metadata of no method matches, the run calls no
\* method under any halt policy, raises nothing and returns the empty list,
\* required checks included.
C29_NothingSelectedNothingRun ==
    (/\ pc # "idle"
     /\ Filtering
     /\ \A k \in 1..Len(methods) :
           /\ IsCheckable(methods[k])
           /\ ~matches(filter_, methods[k].check[1]))
    => /\ calls = <<>>
       /\ checks = <<>>
       /\ pc # "raised"
       /\ executing = {}

\* a run with the filter tags={x} that returned the empty list on a
\* collection of three decorated methods, none tagged x, the first of them
\* required
C29_Witness ==
    /\ pc = "done"
    /\ filter_ = Filter(PyNone, PyNone, Some({"x"}))
    /\ Len(methods) = 3
    /\ \A k \in 1..3 : IsCheckable(methods[k]) /\ methods[k].check[1].tags = None
    /\ methods[1].check[1].required
    /\ checks = <<>>
    /\ calls = <<>>

\* a Check as the decorator made it: nothing was recorded in it
Unrun(check) ==
    /\ check.success = None
    /\ check.message = None
    /\ check.exception = None
    /\ check.run_at = None
    /\ check.runtime = None

\* C24: whatever the calls made so far, the __check__ object of every
\* decorated method is as the decorator made it, with success, message,
\* exception, run_at and runtime null; every result returned is an object of
\* its own, apart from the metadata, that a runner has filled in and that
\* still holds what it held when it was returned; and it carries the name,
\* description, required flag and tags of the metadata, its id being the
\* name of the handler.
C24_ClonePerCall ==
    /\ \A k \in 1..Len(methods) :
          /\ heap[k] = methods[k].check[1]
          /\ Unrun(heap[k])
    /\ \A r \in DOMAIN runs : \A n \in 1..Len(runs[r].checks) :
          LET ref == runs[r].checks[n]
              method == methods[runs[r].calls[n]]
          IN  /\ ref \notin 1..Len(methods)
              /\ heap[ref] = runs[r].results[n]
              /\ heap[ref].success # None
              /\ heap[ref].run_at # None
              /\ heap[ref].runtime # None
              /\ heap[ref].name = method.check[1].name
              /\ heap[ref].description = method.check[1].description
              /\ heap[ref].required = method.check[1].required
              /\ heap[ref].tags = method.check[1].tags
              /\ heap[ref].id = method.name

\* C24 witness: the first method, which has a description, was called by
\* both runs, the second time later than the first; both results are kept
C24_Witness ==
    /\ \A r \in DOMAIN runs : runs[r].pc = "done" /\ Len(runs[r].checks) >= 2
    /\ runs # <<>>
    /\ runs[1].calls[1] = 1 /\ runs[2].calls[1] = 1
    /\ methods[1].check[1].description = Some("about")
    /\ heap[runs[1].checks[1]].run_at = Some(0)
    /\ heap[runs[2].checks[1]].run_at = Some(1)

\* what run_ with halt policy h returns when nothing else runs, from the
\* method at position k on, apart from when each check ran and how long it
\* took
RECURSIVE Alone(_, _, _, _, _)
Alone(ms, h, k, remaining, results) ==
    IF k > Len(ms) THEN results
    ELSE IF ~Contains(remaining, k) /\ Skips(ms[k], remaining)
    THEN Alone(ms, h, k + 1, remaining, results)
    ELSE LET check == Untimed(<<run_check_copy(ms[k], 0, 0).check>>)[1]
             rest == IF Contains(remaining, k) THEN Remove(remaining, k) ELSE remaining
         IN  IF Halts(check, h)
             THEN Append(results, check)
             ELSE Alone(ms, h, k + 1, rest, Append(results, check))

\* the list checks of call r of run_, each reference followed
Own(r) == [n \in 1..Len(runs[r].checks) |-> heap[runs[r].checks[n]]]

\* C28: of two calls of run on one class, interleaved where they await,
\* each holds in its list only objects the other does not hold, and at every
\* moment the list is the beginning of the list the call returns when it
\* runs alone with its filter and halt policy, and the whole of it once the
\* call has returned (apart from when each check ran and how long it took).
C28_RunsDoNotInterfere ==
    \A r \in DOMAIN runs :
        LET alone == Alone(methods, runs[r].halt_on, 1,
                           FilteredMethods(methods, runs[r].filter_), <<>>)
        IN  /\ runs[r].pc # "idle" => IsPrefix(Untimed(Own(r)), alone)
            /\ runs[r].pc = "done" => Untimed(Own(r)) = alone
            /\ runs[r].pc # "raised"
            /\ \A q \in DOMAIN runs \ {r} :
                  \A n \in 1..Len(runs[r].checks), m \in 1..Len(runs[q].checks) :
                      runs[r].checks[n] # runs[q].checks[m]

\* C28 witness: both calls are suspended on a handler at once, each with a
\* result in its list already, under different halt policies
C28_Witness ==
    /\ runs # <<>>
    /\ runs[1].pc = "awaiting" /\ runs[2].pc = "awaiting"
    /\ Len(runs[1].checks) >= 1 /\ Len(runs[2].checks) >= 1
    /\ runs[1].halt_on # runs[2].halt_on
    /\ runs[1].i # runs[2].i

\* a method of the class that check_methods neither passes over nor yields
NameRejected(method) == method.name[1] \notin {"_", "check_"}

SignatureRejected(method) ==
    /\ method.name[1] = "check_"
    /\ \/ method.signature.params # <<>>
       \/ method.signature.returns \notin {Class("Check"), Value(PyStr("Check"))}

Rejected(method) == NameRejected(method) \/ SignatureRejected(method)

\* C23: on a class with a public method that is no well-formed check, run
\* raises before any check method is invoked and returns no list; the error
\* is that of the first such method, a ValueError for its name or a
\* TypeError for its signature. Without such a method the run raises no
\* error at discovery and private methods are never invoked.
C23_MalformedFailsFast ==
    LET bad == {k \in 1..Len(methods) : Rejected(methods[k])}
    IN  /\ \A n \in 1..Len(calls) : ~IsPrivate(methods[calls[n]])
        /\ bad # {} =>
              /\ calls = <<>>
              /\ checks = <<>>
              /\ pc \in {"idle", "raised"}
              /\ pc = "raised" =>
                    LET first == CHOOSE k \in bad : \A j \in bad : k <= j
                    IN  /\ raised # None
                        /\ raised[1].cls =
                              IF NameRejected(methods[first])
                              THEN "ValueError" ELSE "TypeError"
        /\ (bad = {} /\ pc = "raised") => Len(calls) > 0

\* a run raised at discovery on a class whose first two methods are
\* well-formed checks and whose last method has a bad signature
C23_Witness ==
    /\ Len(methods) = 3
    /\ ~Rejected(methods[1]) /\ ~IsPrivate(methods[1])
    /\ ~Rejected(methods[2])
    /\ SignatureRejected(methods[3])
    /\ pc = "raised"
    /\ raised # None /\ raised[1].cls = "TypeError"
    /\ calls = <<>>

C7_Original ==
    Filtering =>
        \A k \in 1..Len(methods) : ~IsCheckable(methods[k]) => ~Called(k)

\* C7 as amended: under a filter with an active constraint a method without
\* metadata is never in filtered_methods, yet the second loop calls it as
\* soon as it reaches it, and the Check it returns is appended to checks.
C7_UnfilterableStillRuns ==
    (Filtering /\ pc # "idle") =>
        \A k \in 1..Len(methods) :
            ~IsCheckable(methods[k]) =>
                /\ ~Contains(filtered_methods, k)
                /\ Passed(k) =>
                      /\ Called(k)
                      /\ methods[k].outcome.value.type = "Check" =>
                            /\ CallOf(k) <= Len(checks)
                            /\ checks[CallOf(k)] = methods[k].outcome.value

\* C7 witness: a filtered run returned the result of a method without
\* metadata, after skipping a decorated method the filter did not select
C7_Witness ==
    /\ Filtering /\ pc = "done"
    /\ Len(methods) = 3
    /\ IsCheckable(methods[1]) /\ ~Called(1)
    /\ ~IsCheckable(methods[2]) /\ Called(2)
    /\ checks[1] = methods[2].outcome.value
    /\ Len(checks) = 2

Timed(check) ==
    /\ check.run_at # None
    /\ check.runtime # None
    /\ check.runtime[1] >= 0

\* C11 as claimed: every Check in the list run_ returns has run_at and
\* runtime set, runtime >= 0, whatever kind of method produced it.
C11_Original ==
    pc = "done" => \A n \in 1..Len(checks) : Timed(checks[n])

\* C11 as amended: every Check in checks that a decorated method produced has
\* run_at set to the clock at its call and runtime to the time the call took,
\* also when the handler raised; the Check of a hand-written method is
\* appended as the method returned it, run_ sets neither field of it.
C11_DecoratedTimed ==
    \A n \in 1..Len(checks) :
        LET method == methods[calls[n]]
        IN  IF IsCheckable(method)
            THEN /\ Timed(checks[n])
                 /\ checks[n].run_at[1] + checks[n].runtime[1] <= now
                 /\ n > 1 /\ IsCheckable(methods[calls[n - 1]]) =>
                       checks[n - 1].run_at[1] + checks[n - 1].runtime[1]
                           <= checks[n].run_at[1]
            ELSE checks[n] = method.outcome.value

\* C11 witness: a run returned the result of a decorated check whose handler
\* raised after some time, and the result of a hand-written method that
\* carries no timing
C11_Witness ==
    /\ pc = "done"
    /\ \E n \in 1..Len(checks) :
          /\ checks[n].exception = Some(RuntimeError)
          /\ checks[n].run_at = Some(0)
          /\ checks[n].runtime = Some(1)
    /\ \E n \in 1..Len(checks) :
          /\ ~IsCheckable(methods[calls[n]])
          /\ checks[n].run_at = None

\* method returns something that is no Check
ReturnsNoCheck(method) ==
    /\ ~IsCheckable(method)
    /\ method.outcome.kind = "return"
    /\ method.outcome.value.type # "Check"

\* C13: once run_ has called a method that returns a value that is no Check,
\* the run has ended by raising a TypeError: that call is its last, nothing
\* was appended to checks for the value, and no list is returned.
C13_NonCheckRaises ==
    \A n \in 1..Len(calls) :
        ReturnsNoCheck(methods[calls[n]]) =>
            /\ pc = "raised"
            /\ raised # None
            /\ raised[1].cls = "TypeError"
            /\ n = Len(calls)
            /\ Len(checks) = n - 1
            /\ i = calls[n]

\* C13 witness: a run raised TypeError at its second method, after one
\* result, and left the third method uncalled
C13_Witness ==
    /\ pc = "raised"
    /\ raised # None /\ raised[1].cls = "TypeError"
    /\ Len(methods) = 3
    /\ calls = <<1, 2>>
    /\ Len(checks) = 1
    /\ methods[2].outcome = Return(PyStr("not a check"))

-----------------------------------------------------------------------------
(* Properties of the handler runner *)

AcceptedTypes == {"bool", "str", "tuple", "NoneType", "Exception"}

\* C8 as claimed: a handler that returns a value of an unsupported type makes
\* the call raise ValueError.
C8_Original ==
    called # None =>
        LET handler == called[1].handler
            result == called[1].result
        IN  (handler.kind = "return" /\ handler.value.type \notin AcceptedTypes) =>
                /\ result.kind = "raise"
                /\ result.error.cls = "ValueError"

\* C12: when control leaves run_check_handler or run_check_handler_sync, the
\* Check it was given has run_at set and runtime set to the time between
\* entry and exit, whether the handler returned, raised an exception the
\* runner rescues, raised one it lets through, or returned a value that
\* result coercion rejects.
C12_RuntimeOnEveryExit ==
    called # None =>
        LET check == called[1].check
        IN  /\ check.run_at # None
            /\ check.runtime # None
            /\ check.run_at[1] + check.runtime[1] = now

\* C12 witness: an exception left the runner, after some time, and the Check
\* has its runtime although no result was set on it
C12_Witness ==
    /\ called # None
    /\ called[1].handler = Raise(KeyboardInterrupt)
    /\ called[1].result = Raise(KeyboardInterrupt)
    /\ called[1].check.success = None
    /\ called[1].check.run_at = Some(0)
    /\ called[1].check.runtime = Some(1)

\* C18: two Checks that Check.run constructs one after the other with the
\* same name and no id have the same id, whenever each is constructed; and an
\* id so generated is eight hexadecimal digits that are the digest of the name.
C18_GeneratedIdDeterministic ==
    [][(called' # None /\ called'[1].op = "Check.run") =>
          /\ Len(called'[1].check.id) = 8
          /\ called'[1].check.id = blake2b(called'[1].check.name)
          /\ (/\ called # None
              /\ called[1].op = "Check.run"
              /\ called[1].check.name = called'[1].check.name)
             => called'[1].check.id = called[1].check.id]_vars

\* C18 witness: a Check constructed with no id after the clock had advanced
\* carries the digest of its name as its id
C18_Witness ==
    /\ called # None
    /\ called[1].op = "Check.run"
    /\ called[1].check.created_at = 1
    /\ called[1].check.name = DbConn
    /\ called[1].check.id = blake2b(DbConn)
    /\ Len(called[1].check.id) = 8

\* the handler of the last call returned a tuple whose first element is False
ReturnedFalseFirst ==
    /\ called[1].handler.kind = "return"
    /\ called[1].handler.value.type = "tuple"
    /\ Len(called[1].handler.value.items) >= 1
    /\ called[1].handler.value.items[1] = PyBool(FALSE)

\* the handler of the last call returned (False, message) with a str message
ReturnedFalsePair ==
    /\ ReturnedFalseFirst
    /\ Len(called[1].handler.value.items) = 2
    /\ called[1].handler.value.items[2].type = "str"

ReturnedFalse == called[1].handler = Return(PyBool(FALSE))

\* the exception of a check is set only with success False and the message
\* made from it
ExceptionConsistent(check) ==
    check.exception # None =>
        /\ check.success = Some(FALSE)
        /\ check.message = Some("caught exception: " \o check.exception[1].repr)

C10_Coercion ==
    called # None =>
        LET value == called[1].handler.value
            result == called[1].result
            IsPair == /\ Len(value.items) = 2
                      /\ value.items[1].type = "bool"
                      /\ value.items[2].type = "str"
            Gives(success, message) ==
                /\ result.kind = "return"
                /\ result.value.success = Some(success)
                /\ result.value.message = message
                /\ result.value.exception = None
        IN  called[1].handler.kind = "return" =>
                CASE value.type = "bool" -> Gives(value.b, None)
                  [] value.type = "str" -> Gives(TRUE, Some(value.s))
                  [] value.type = "tuple" ->
                        IsPair => Gives(value.items[1].b, Some(value.items[2].s))
                  [] value.type = "NoneType" -> Gives(TRUE, None)
                  [] OTHER -> TRUE

\* C10 witness: a handler returned (False, "no") and the check failed with
\* that message
C10_Witness ==
    /\ called # None
    /\ called[1].handler = Return(PyTuple(<<PyBool(FALSE), PyStr("no")>>))
    /\ called[1].result.kind = "return"
    /\ called[1].result.value.success = Some(FALSE)
    /\ called[1].result.value.message = Some("no")

====
